---- MODULE Spec2Model ----
(***************************************************************************)
(* nuke-node-modules: the scanner (pruning walk, exclusion globs, sort),   *)
(* the safety validator, the parallel deleter and the top-level driver.    *)
(*                                                                         *)
(* A file name is a sequence of one-character strings, a path is the       *)
(* sequence of its names below the filesystem root "/", and a path string  *)
(* is the sequence of characters the program prints or globs against.      *)
(***************************************************************************)
EXTENDS Integers, Sequences, FiniteSets, TLC

VARIABLES
    fs,            \* the filesystem: kind of every path of Universe
    fs0,           \* the filesystem when the operation was invoked
    op,            \* the public operation that was invoked
    root_path,     \* root handed to Scanner::new / cleanup_node_modules
    config,        \* the Config record
    scanner,       \* the Scanner value (root_path, exclude_patterns)
    warnings,      \* "Warning: Invalid pattern" lines on stderr
    targets,       \* Vec<PathBuf>: scan result or the caller's list
    pc,            \* position of the invoked operation
    result,        \* the value the operation returned
    tasks,         \* per target: state of its deletion task
    counters,      \* deleted_count, failed_count, bytes_freed, errors
    probed,        \* paths handed to calculate_directory_size
    removed,       \* paths handed to fs::remove_dir_all, with the outcome
    prompts,       \* number of confirm_deletion calls
    cleaner,       \* the Cleaner value (pool size, show_progress)
    confirmation,  \* what confirm_deletion returned, "" before it is called
    progress,      \* the progress bar and what delete_directories printed
    exit_code,     \* the status the process exited with: <<>> or <<code>>
    previous,      \* the value an earlier call on the same tree returned
    visited        \* the entries the walk of the last scan yielded

vars == <<fs, fs0, op, root_path, config, scanner, warnings, targets, pc,
          result, tasks, counters, probed, removed, prompts, cleaner,
          confirmation, progress, exit_code, previous, visited>>

----------------------------------------------------------------------------
(* Characters, names and paths *)

\* the characters used, in ascending byte order
Ascii == <<"!", "*", "-", ".", "/", "?", "[", "]", "_",
           "a", "b", "d", "e", "l", "m", "n", "o", "s", "u">>

Code(c) == CHOOSE i \in 1..Len(Ascii) : Ascii[i] = c

NodeModules == <<"n", "o", "d", "e", "_", "m", "o", "d", "u", "l", "e", "s">>
NameA == <<"a">>
NameAB == <<"a", "-", "b">>
DotDot == <<".", ".">>
RootDir == <<"/">>

Names == {NameA, NameAB, NodeModules}

Min(S) == CHOOSE x \in S : \A y \in S : x <= y

IsPrefix(p, q) == Len(p) <= Len(q) /\ SubSeq(q, 1, Len(p)) = p
IsProperPrefix(p, q) == Len(p) < Len(q) /\ SubSeq(q, 1, Len(p)) = p

\* Path::components(): the root directory, then one component per name
Components(p) == <<RootDir>> \o p

\* Path::file_name(): the last component when it is a normal one
FileName(p) ==
    IF p = <<>> \/ p[Len(p)] = DotDot THEN <<>> ELSE p[Len(p)]

\* Path::display() / to_string_lossy(): names joined by the separator
RECURSIVE PathStr(_)
PathStr(p) ==
    IF p = <<>> THEN <<"/">>
    ELSE IF Len(p) = 1 THEN <<"/">> \o p[1]
    ELSE PathStr(SubSeq(p, 1, Len(p) - 1)) \o <<"/">> \o p[Len(p)]

----------------------------------------------------------------------------
(* The filesystem *)

Universe ==
    { <<NameA>>, <<NameA, NodeModules>>, <<NameA, NodeModules, NameA>>,
      <<NameAB>>, <<NameAB, NodeModules>>,
      <<NodeModules>>, <<NodeModules, NameA>>,
      <<NodeModules, NameA, NodeModules>> }

\* what a path of the universe may be; "locked" is a directory whose
\* entries the process is not allowed to read
KindsAt(p) ==
    IF p = <<NameAB, NodeModules>> THEN {"none", "dir", "file", "link"}
    ELSE IF p = <<NameA, NodeModules, NameA>> THEN {"none", "file"}
    ELSE IF p \in { <<NameAB>>, <<NodeModules, NameA, NodeModules>> }
    THEN {"none", "dir", "locked"}
    ELSE {"none", "dir"}

\* metadata().len() of a regular file
FileLen(p) == IF p = <<NameA, NodeModules, NameA>> THEN 5 ELSE 1000

Parent(p) == SubSeq(p, 1, Len(p) - 1)

Kind(f, p) ==
    IF p = <<>> THEN "dir"
    ELSE IF p \in Universe THEN f[p] ELSE "none"

\* every existing entry sits in an existing directory
Trees ==
    { f \in [Universe -> {"none", "dir", "file", "link", "locked"}] :
        \A p \in Universe :
            /\ f[p] \in KindsAt(p)
            /\ f[p] # "none" => Kind(f, Parent(p)) = "dir" }

Children(f, p) ==
    { q \in Universe : Len(q) = Len(p) + 1 /\ IsPrefix(p, q) /\ f[q] # "none" }

----------------------------------------------------------------------------
(* glob::Pattern, as Scanner uses it (default MatchOptions) *)

is_separator(c) == c = "/"

RECURSIVE CountStars(_, _)
CountStars(chars, i) ==
    IF i <= Len(chars) /\ chars[i] = "*" THEN 1 + CountStars(chars, i + 1) ELSE 0

\* index of the first "]" at or after k, 0 when there is none
ClosePos(chars, k) ==
    LET S == { j \in k..Len(chars) : chars[j] = "]" }
    IN IF S = {} THEN 0 ELSE Min(S)

RECURSIVE parse_char_specifiers(_, _)
parse_char_specifiers(s, i) ==
    IF i > Len(s) THEN <<>>
    ELSE IF i + 2 <= Len(s) /\ s[i + 1] = "-"
         THEN <<[start |-> s[i], end |-> s[i + 2]]>>
                  \o parse_char_specifiers(s, i + 3)
         ELSE <<[start |-> s[i], end |-> s[i]]>>
                  \o parse_char_specifiers(s, i + 1)

in_char_specifiers(cs, c) ==
    \E k \in 1..Len(cs) : Code(c) >= Code(cs[k].start) /\ Code(c) <= Code(cs[k].end)

\* Pattern::new from position i on, with the tokens compiled so far
RECURSIVE Compile(_, _, _)
Compile(chars, i, tokens) ==
    IF i > Len(chars) THEN [ok |-> TRUE, tokens |-> tokens]
    ELSE IF chars[i] = "?" THEN
        Compile(chars, i + 1, Append(tokens, [t |-> "AnyChar"]))
    ELSE IF chars[i] = "*" THEN
        LET count == CountStars(chars, i)
            j == i + count
        IN  IF count > 2 THEN [ok |-> FALSE, tokens |-> <<>>]
            ELSE IF count = 2 THEN
                IF i = 1 \/ is_separator(chars[i - 1]) THEN
                    LET collapsed ==
                            IF ~(Len(tokens) > 1
                                   /\ tokens[Len(tokens)].t = "AnyRecursiveSequence")
                            THEN Append(tokens, [t |-> "AnyRecursiveSequence"])
                            ELSE tokens
                    IN  IF j <= Len(chars) /\ is_separator(chars[j])
                        THEN Compile(chars, j + 1, collapsed)
                        ELSE IF j = Len(chars) + 1
                        THEN Compile(chars, j, collapsed)
                        ELSE [ok |-> FALSE, tokens |-> <<>>]
                ELSE [ok |-> FALSE, tokens |-> <<>>]
            ELSE Compile(chars, j, Append(tokens, [t |-> "AnySequence"]))
    ELSE IF chars[i] = "[" THEN
        IF i + 3 <= Len(chars) /\ chars[i + 1] = "!" THEN
            LET c == ClosePos(chars, i + 3)
            IN  IF c = 0 THEN [ok |-> FALSE, tokens |-> <<>>]
                ELSE Compile(chars, c + 1,
                        Append(tokens,
                            [t |-> "AnyExcept",
                             cs |-> parse_char_specifiers(SubSeq(chars, i + 2, c - 1), 1)]))
        ELSE IF i + 2 <= Len(chars) /\ chars[i + 1] # "!" THEN
            LET c == ClosePos(chars, i + 2)
            IN  IF c = 0 THEN [ok |-> FALSE, tokens |-> <<>>]
                ELSE Compile(chars, c + 1,
                        Append(tokens,
                            [t |-> "AnyWithin",
                             cs |-> parse_char_specifiers(SubSeq(chars, i + 1, c - 1), 1)]))
        ELSE [ok |-> FALSE, tokens |-> <<>>]
    ELSE Compile(chars, i + 1, Append(tokens, [t |-> "Char", c |-> chars[i]]))

\* Pattern::new(pattern): Ok(Pattern { tokens, original }) or Err
PatternNew(pattern) ==
    LET r == Compile(pattern, 1, <<>>)
    IN  [ok |-> r.ok, tokens |-> r.tokens, original |-> pattern]

IsStar(tok) == tok.t \in {"AnySequence", "AnyRecursiveSequence"}

TokenAccepts(tok, c) ==
    CASE tok.t = "AnyChar" -> TRUE
      [] tok.t = "AnyWithin" -> in_char_specifiers(tok.cs, c)
      [] tok.t = "AnyExcept" -> ~in_char_specifiers(tok.cs, c)
      [] tok.t = "Char" -> c = tok.c
      [] OTHER -> FALSE

\* Pattern::matches_from: "Match", "SubPatternDoesntMatch" or
\* "EntirePatternDoesntMatch"
RECURSIVE matches_from(_, _, _, _)
RECURSIVE StarLoop(_, _, _, _)
matches_from(tokens, follows_separator, file, i) ==
    IF i > Len(tokens) THEN
        IF file = <<>> THEN "Match" ELSE "SubPatternDoesntMatch"
    ELSE IF IsStar(tokens[i]) THEN
        LET empty == matches_from(tokens, follows_separator, file, i + 1)
        IN  IF empty # "SubPatternDoesntMatch" THEN empty
            ELSE StarLoop(tokens, follows_separator, file, i)
    ELSE IF file = <<>> THEN "EntirePatternDoesntMatch"
    ELSE IF ~TokenAccepts(tokens[i], Head(file)) THEN "SubPatternDoesntMatch"
    ELSE matches_from(tokens, is_separator(Head(file)), Tail(file), i + 1)

\* the `while let Some(c) = file.next()` loop of a wildcard token
StarLoop(tokens, follows_separator, file, i) ==
    IF file = <<>> THEN matches_from(tokens, follows_separator, file, i + 1)
    ELSE LET sep == is_separator(Head(file))
         IN  IF tokens[i].t = "AnyRecursiveSequence" /\ ~sep
             THEN StarLoop(tokens, sep, Tail(file), i)
             ELSE LET m == matches_from(tokens, sep, Tail(file), i + 1)
                  IN  IF m # "SubPatternDoesntMatch" THEN m
                      ELSE StarLoop(tokens, sep, Tail(file), i)

\* Pattern::matches(str)
PatternMatches(pattern, str) ==
    matches_from(pattern.tokens, TRUE, str, 1) = "Match"

----------------------------------------------------------------------------
(* Results *)

NoError == [msg |-> "", path |-> <<>>]
Pending == [kind |-> "none", value |-> <<>>, error |-> NoError]
Ok(v) == [kind |-> "Ok", value |-> v, error |-> NoError]
Err(msg, path) == [kind |-> "Err", value |-> <<>>, error |-> [msg |-> msg, path |-> path]]

----------------------------------------------------------------------------
(* scanner.rs *)

\* a compilation that gives up at the first malformed pattern
RECURSIVE CompilePatterns_stop(_, _)
CompilePatterns_stop(patterns, i) ==
    IF i > Len(patterns) THEN [compiled |-> <<>>, warned |-> 0]
    ELSE LET p == PatternNew(patterns[i])
             rest == CompilePatterns_stop(patterns, i + 1)
         IN  IF p.ok
             THEN [compiled |-> <<[tokens |-> p.tokens, original |-> p.original]>>
                                    \o rest.compiled,
                   warned |-> rest.warned]
             ELSE [compiled |-> <<>>, warned |-> 1]

\* the filter_map of Scanner::new: compiled patterns in input order, and
\* the number of warnings printed
RECURSIVE CompilePatterns(_, _)
CompilePatterns(patterns, i) ==
    IF i > Len(patterns) THEN [compiled |-> <<>>, warned |-> 0]
    ELSE LET p == PatternNew(patterns[i])
             rest == CompilePatterns(patterns, i + 1)
         IN  IF p.ok
             THEN [compiled |-> <<[tokens |-> p.tokens, original |-> p.original]>>
                                    \o rest.compiled,
                   warned |-> rest.warned]
             ELSE [compiled |-> rest.compiled, warned |-> rest.warned + 1]

ScannerNew(root, patterns) ==
    [root_path |-> root, exclude_patterns |-> CompilePatterns(patterns, 1).compiled]

\* an exclusion test that globs the file name instead of the whole path
should_exclude_name(sc, path) ==
    \E k \in 1..Len(sc.exclude_patterns) :
        PatternMatches(sc.exclude_patterns[k], FileName(path))

\* Scanner::should_exclude
should_exclude(sc, path) ==
    \E k \in 1..Len(sc.exclude_patterns) :
        PatternMatches(sc.exclude_patterns[k], PathStr(path))

\* a filter that lets every entry through
filter_entry_all(path) == TRUE

\* the closure handed to filter_entry
filter_entry(path) ==
    LET components == Components(path)
        found == { k \in 1..Len(components) : components[k] = NodeModules }
    IN  IF found # {}
        THEN LET node_modules_index == Min(found)
             IN  path = <<>> \/ path[Len(path)] # NodeModules
                    \/ Len(components) = node_modules_index
        ELSE TRUE

\* what a symbolic link points to: /a-b to the directory /a, and
\* /a-b/node_modules to the regular file /a/node_modules/a
LinkTarget(p) ==
    IF p = <<NameAB>> THEN <<NameA>> ELSE <<NameA, NodeModules, NameA>>

\* the location a path names once the links above its last name are
\* resolved
Real(f, path) ==
    IF Len(path) >= 2 /\ Kind(f, <<path[1]>>) = "link"
    THEN LinkTarget(<<path[1]>>) \o Tail(path)
    ELSE path

\* DirEntry::file_type(): the kind of the entry itself, a link is a link
file_type(f, path) == Kind(f, Real(f, path))

\* a walk that reads the directory behind every link
Descends_links(f, root, path) ==
    \/ file_type(f, path) = "dir"
    \/ /\ file_type(f, path) = "link"
       /\ Kind(f, LinkTarget(path)) = "dir"

\* whether WalkDir reads the entries of `path`: follow_links is off, and
\* the root of the walk is followed when it is a link to a directory
Descends(f, root, path) ==
    \/ file_type(f, path) = "dir"
    \/ /\ path = root
       /\ file_type(f, path) = "link"
       /\ Kind(f, LinkTarget(path)) = "dir"

\* the entries WalkDir yields below and including `path`, depth first, a
\* directory's entries in the order `order` lists their names
RECURSIVE Walk(_, _, _, _)
RECURSIVE WalkChildren(_, _, _, _, _)
Walk(f, root, path, order) ==
    IF ~filter_entry(path) THEN <<>>
    ELSE IF Descends(f, root, path)
    THEN <<path>> \o WalkChildren(f, root, path, order, 1)
    ELSE <<path>>

WalkChildren(f, root, path, order, k) ==
    IF k > Len(order) THEN <<>>
    ELSE LET child == Append(path, order[k])
         IN  (IF file_type(f, child) # "none"
              THEN Walk(f, root, child, order) ELSE <<>>)
                 \o WalkChildren(f, root, path, order, k + 1)

\* a loop body that forgets the is_dir test
RECURSIVE Collect_nodir(_, _, _)
Collect_nodir(f, sc, entries) ==
    IF entries = <<>> THEN <<>>
    ELSE LET path == Head(entries)
             rest == Collect_nodir(f, sc, Tail(entries))
         IN  IF FileName(path) = NodeModules /\ ~should_exclude(sc, path)
             THEN <<path>> \o rest
             ELSE rest

\* the body of the for loop: keep the entries that are candidates
RECURSIVE Collect(_, _, _)
Collect(f, sc, entries) ==
    IF entries = <<>> THEN <<>>
    ELSE LET path == Head(entries)
             rest == Collect(f, sc, Tail(entries))
         IN  IF file_type(f, path) = "dir" /\ FileName(path) = NodeModules
                    /\ ~should_exclude(sc, path)
             THEN <<path>> \o rest
             ELSE rest

\* Ord of OsStr: byte-wise lexicographic; -1, 0 or 1
RECURSIVE CmpBytes(_, _)
CmpBytes(s, t) ==
    IF s = <<>> THEN (IF t = <<>> THEN 0 ELSE -1)
    ELSE IF t = <<>> THEN 1
    ELSE IF Code(Head(s)) < Code(Head(t)) THEN -1
    ELSE IF Code(Head(s)) > Code(Head(t)) THEN 1
    ELSE CmpBytes(Tail(s), Tail(t))

\* Ord of Path: lexicographic over the components
RECURSIVE compare_components(_, _)
compare_components(p, q) ==
    IF p = <<>> THEN (IF q = <<>> THEN 0 ELSE -1)
    ELSE IF q = <<>> THEN 1
    ELSE LET c == CmpBytes(Head(p), Head(q))
         IN  IF c # 0 THEN c ELSE compare_components(Tail(p), Tail(q))

PathCmp(p, q) == compare_components(Components(p), Components(q))

RECURSIVE Insert(_, _)
Insert(sorted, p) ==
    IF sorted = <<>> THEN <<p>>
    ELSE IF PathCmp(p, Head(sorted)) < 0 THEN <<p>> \o sorted
    ELSE <<Head(sorted)>> \o Insert(Tail(sorted), p)

\* a sort on the path strings instead of the paths
RECURSIVE InsertByString(_, _)
InsertByString(sorted, p) ==
    IF sorted = <<>> THEN <<p>>
    ELSE IF CmpBytes(PathStr(p), PathStr(Head(sorted))) < 0 THEN <<p>> \o sorted
    ELSE <<Head(sorted)>> \o InsertByString(Tail(sorted), p)

RECURSIVE Sort_bystring(_)
Sort_bystring(paths) ==
    IF paths = <<>> THEN <<>>
    ELSE InsertByString(Sort_bystring(SubSeq(paths, 1, Len(paths) - 1)),
                        paths[Len(paths)])

\* a scan that returns the candidates in the order of the walk
Sort_none(paths) == paths

\* targets.sort()
RECURSIVE Sort(_)
Sort(paths) ==
    IF paths = <<>> THEN <<>>
    ELSE Insert(Sort(SubSeq(paths, 1, Len(paths) - 1)), paths[Len(paths)])

\* the first entry of the walk whose directory cannot be read; the
\* iterator yields the directory, then the error of opening it
RECURSIVE FirstUnreadable(_, _)
FirstUnreadable(f, entries) ==
    IF entries = <<>> THEN <<>>
    ELSE IF file_type(f, Head(entries)) = "locked" THEN <<Head(entries)>>
    ELSE FirstUnreadable(f, Tail(entries))

\* the walk cannot start: nothing at the root, or a root link that
\* points to nothing
RootMissing(f, root) ==
    \/ file_type(f, root) = "none"
    \/ file_type(f, root) = "link" /\ Kind(f, LinkTarget(root)) = "none"

\* the entries of a sequence up to and including the first `e`
RECURSIVE UpTo(_, _)
UpTo(entries, e) ==
    IF entries = <<>> THEN <<>>
    ELSE IF Head(entries) = e THEN <<e>>
    ELSE <<Head(entries)>> \o UpTo(Tail(entries), e)

\* the entries the for loop of find_node_modules_dirs has seen when it
\* returns: all of the walk, or the walk up to its first error
Visited(f, sc, order) ==
    LET entries == Walk(f, sc.root_path, sc.root_path, order)
        unreadable == FirstUnreadable(f, entries)
    IN  IF RootMissing(f, sc.root_path) THEN {}
        ELSE IF unreadable # <<>>
        THEN { UpTo(entries, unreadable[1])[k] :
                 k \in 1..Len(UpTo(entries, unreadable[1])) }
        ELSE { entries[k] : k \in 1..Len(entries) }

\* a scan that skips the entries it cannot read
find_node_modules_dirs_lenient(f, sc, order) ==
    IF RootMissing(f, sc.root_path)
    THEN Err("IO error", sc.root_path)
    ELSE Ok(Sort(Collect(f, sc, Walk(f, sc.root_path, sc.root_path, order))))

\* Scanner::find_node_modules_dirs: `entry?` returns the first error of
\* the walk, whatever has been pushed by then
find_node_modules_dirs(f, sc, order) ==
    LET entries == Walk(f, sc.root_path, sc.root_path, order)
        unreadable == FirstUnreadable(f, entries)
    IN  IF RootMissing(f, sc.root_path)
        THEN Err("IO error", sc.root_path)
        ELSE IF unreadable # <<>>
        THEN Err("IO error", unreadable[1])
        ELSE Ok(Sort(Collect(f, sc, entries)))

\* a validator that is satisfied by one good path
validate_targets_any(paths) ==
    IF paths = <<>> \/ \E i \in 1..Len(paths) : FileName(paths[i]) = NodeModules
    THEN Ok(<<>>)
    ELSE Err("Safety check failed", paths[1])

\* a validator that looks at the head of the list only
validate_targets_first(paths) ==
    IF paths = <<>> \/ FileName(paths[1]) = NodeModules
    THEN Ok(<<>>)
    ELSE Err("Safety check failed", paths[1])

\* a validator that walks the list from its end
RECURSIVE validate_targets_rev(_)
validate_targets_rev(paths) ==
    IF paths = <<>> THEN Ok(<<>>)
    ELSE IF FileName(paths[Len(paths)]) # NodeModules
         THEN Err("Safety check failed", paths[Len(paths)])
         ELSE validate_targets_rev(SubSeq(paths, 1, Len(paths) - 1))

\* validate_targets: Ok, or the error naming the offending path
RECURSIVE validate_targets(_)
validate_targets(paths) ==
    IF paths = <<>> THEN Ok(<<>>)
    ELSE IF FileName(Head(paths)) # NodeModules
         THEN Err("Safety check failed", Head(paths))
         ELSE validate_targets(Tail(paths))

----------------------------------------------------------------------------
(* Inputs *)

GlobRecursiveA == <<"*", "*", "/", "a", "/", "*", "*">>
GlobHyphen == <<"*", "-", "b", "/", "*">>
GlobUnclosed == <<"[", "a">>
GlobBadStars == <<"a", "*", "*">>

PatternStrings == {GlobRecursiveA, GlobHyphen, GlobUnclosed, GlobBadStars}

MaxPatterns == 2

SeqsUpTo(S, n) == UNION { [1..k -> S] : k \in 0..n }

PatternLists == SeqsUpTo(PatternStrings, MaxPatterns)

ScanRoots == { <<>>, <<NameA>>, <<NodeModules>>, <<NodeModules, NameA>> }

\* the orders in which a directory's entries can be enumerated
Orders == { o \in [1..Cardinality(Names) -> Names] :
              \A i, j \in 1..Cardinality(Names) : i # j => o[i] # o[j] }

DefaultConfig ==
    [exclude_patterns |-> <<>>, dry_run |-> FALSE, no_confirm |-> FALSE,
     quiet |-> FALSE, threads |-> <<>>]

NoScanner == [root_path |-> <<>>, exclude_patterns |-> <<>>]
NoCleaner == [num_threads |-> 0, show_progress |-> FALSE]
NoCounters == [deleted_count |-> 0, failed_count |-> 0, bytes_freed |-> 0, errors |-> <<>>]

\* no progress bar, nothing printed
NoProgress ==
    [bar |-> FALSE, len |-> 0, pos |-> 0, finished |-> FALSE,
     errors_printed |-> 0, summary |-> FALSE]

----------------------------------------------------------------------------
(* The scanner on its own: Scanner::new, then find_node_modules_dirs *)

InitScan ==
    /\ fs \in Trees
    /\ fs0 = fs
    /\ op = "find_node_modules_dirs"
    /\ root_path \in ScanRoots
    /\ \E pats \in PatternLists : config = [DefaultConfig EXCEPT !.exclude_patterns = pats]
    /\ scanner = NoScanner
    /\ warnings = 0
    /\ targets = <<>>
    /\ pc = "new"
    /\ result = Pending
    /\ tasks = <<>>
    /\ counters = NoCounters
    /\ probed = {}
    /\ removed = {}
    /\ prompts = 0
    /\ cleaner = NoCleaner
    /\ confirmation = ""
    /\ progress = NoProgress
    /\ exit_code = <<>>
    /\ previous = Pending
    /\ visited = {}

NewScanner ==
    /\ op = "find_node_modules_dirs"
    /\ pc = "new"
    /\ scanner' = ScannerNew(root_path, config.exclude_patterns)
    /\ warnings' = warnings + CompilePatterns(config.exclude_patterns, 1).warned
    /\ pc' = "scan"
    /\ UNCHANGED <<confirmation, progress, exit_code, previous, visited>>
    /\ UNCHANGED <<fs, fs0, op, root_path, config, targets, result, tasks,
                   counters, probed, removed, prompts, cleaner>>

FindNodeModulesDirs ==
    /\ op = "find_node_modules_dirs"
    /\ pc = "scan"
    /\ \E order \in Orders :
         /\ result' = find_node_modules_dirs(fs, scanner, order)
         /\ targets' = result'.value
         /\ visited' = Visited(fs, scanner, order)
    /\ pc' = "done"
    /\ UNCHANGED <<confirmation, progress, exit_code, previous>>
    /\ UNCHANGED <<fs, fs0, op, root_path, config, scanner, warnings, tasks,
                   counters, probed, removed, prompts, cleaner>>

\* the caller scans a second time with the same Scanner; the directories
\* may enumerate their entries in another order
ScanAgain ==
    /\ op = "find_node_modules_dirs"
    /\ pc = "done"
    /\ previous' = result
    /\ \E order \in Orders :
         /\ result' = find_node_modules_dirs(fs, scanner, order)
         /\ targets' = result'.value
         /\ visited' = Visited(fs, scanner, order)
    /\ pc' = "again"
    /\ UNCHANGED <<fs, fs0, op, root_path, config, scanner, warnings, tasks,
                   counters, probed, removed, prompts, cleaner, confirmation,
                   progress, exit_code>>

NextScan == NewScanner \/ FindNodeModulesDirs \/ ScanAgain

SpecScan == InitScan /\ [][NextScan]_vars

----------------------------------------------------------------------------
(* The scanner on trees with symbolic links *)

\* the trees in which /a-b is a symbolic link to /a
LinkedTrees ==
    { [f EXCEPT ![<<NameAB>>] = "link"] : f \in { g \in Trees : g[<<NameAB>>] = "none" } }

\* the trees with a link: /a-b itself, or /a-b/node_modules
LinkTrees == LinkedTrees \cup { f \in Trees : f[<<NameAB, NodeModules>>] = "link" }

LinkRoots == { <<>>, <<NameAB>> }

InitLinks ==
    /\ fs \in LinkTrees
    /\ fs0 = fs
    /\ op = "find_node_modules_dirs"
    /\ root_path \in LinkRoots
    /\ \E pats \in PatternLists : config = [DefaultConfig EXCEPT !.exclude_patterns = pats]
    /\ scanner = NoScanner
    /\ warnings = 0
    /\ targets = <<>>
    /\ pc = "new"
    /\ result = Pending
    /\ tasks = <<>>
    /\ counters = NoCounters
    /\ probed = {}
    /\ removed = {}
    /\ prompts = 0
    /\ cleaner = NoCleaner
    /\ confirmation = ""
    /\ progress = NoProgress
    /\ exit_code = <<>>
    /\ previous = Pending
    /\ visited = {}

SpecLinks == InitLinks /\ [][NextScan]_vars

----------------------------------------------------------------------------
(* cleaner.rs *)

\* the machine's logical CPU count (num_cpus::get)
NumCpus == 2

\* Option<usize>: <<>> is None, <<n>> is Some(n)
Some(n) == <<n>>
None == <<>>

\* a Cleaner whose pool always has one worker per logical CPU
CleanerNew_cpus(threads, show_progress, test_environment) ==
    [num_threads |-> NumCpus, show_progress |-> show_progress /\ ~test_environment]

\* Cleaner::new; a pool asked for 0 threads takes the default size
CleanerNew(threads, show_progress, test_environment) ==
    LET num_threads == IF threads = None THEN NumCpus ELSE threads[1]
    IN  [num_threads |-> IF num_threads = 0 THEN NumCpus ELSE num_threads,
         show_progress |-> show_progress /\ ~test_environment]

RECURSIVE SumLen(_)
SumLen(S) ==
    IF S = {} THEN 0
    ELSE LET q == CHOOSE x \in S : TRUE IN FileLen(q) + SumLen(S \ {q})

\* the directories at or below path that cannot be read
LockedBelow(f, path) ==
    { q \in Universe : IsPrefix(path, q) /\ f[q] = "locked" }

\* calculate_directory_size: the lengths of the regular files at or below
\* dir; the walk is unfiltered and its first error is returned. The root
\* of the walk is followed when it is a link: a link to nothing is an
\* error, and the link itself is an entry that is not a regular file
calculate_directory_size(f, dir) ==
    LET top == IF Kind(f, dir) = "link" THEN LinkTarget(dir) ELSE dir
    IN  IF Kind(f, top) = "none" \/ LockedBelow(f, top) # {}
        THEN Err("IO error", dir)
        ELSE Ok(SumLen({ q \in Universe : IsPrefix(top, q) /\ f[q] = "file"
                                             /\ (q # top \/ top = dir) }))

\* fs::remove_dir_all: a directory goes with everything below it, a
\* symbolic link goes alone, anything else is an error; a directory that
\* cannot be read stops the removal (in this universe such a directory has
\* no sibling, so nothing has been unlinked when the error comes)
remove_dir_all(f, path) ==
    IF LockedBelow(f, path) # {}
    THEN [ok |-> FALSE, fs |-> f]
    ELSE IF Kind(f, path) = "dir" /\ path # <<>>
    THEN [ok |-> TRUE,
          fs |-> [q \in Universe |-> IF IsPrefix(path, q) THEN "none" ELSE f[q]]]
    ELSE IF Kind(f, path) = "link"
    THEN [ok |-> TRUE, fs |-> [f EXCEPT ![path] = "none"]]
    ELSE [ok |-> FALSE, fs |-> f]

CleanupStats(found, deleted, failed, bytes) ==
    [directories_found |-> found, directories_deleted |-> deleted,
     directories_failed |-> failed, bytes_freed |-> bytes]

DefaultStats == CleanupStats(0, 0, 0, 0)

\* one call of the for_each closure: where it is, what the probe returned
\* and what unwrap_or(0) made of it, whether remove_dir_all succeeded, how
\* often it was called and what the target was at that moment
NewTask ==
    [state |-> "pending", probe |-> "none", size_before |-> 0, ok |-> FALSE,
     attempts |-> 0, seen |-> "none"]

\* a deletion that reports the probed size whether or not the removal
\* succeeded
delete_single_result_always(task, path) == Ok(task.size_before)

\* a deletion that forgets what the probe returned
delete_single_result_zero(task, path) ==
    IF task.ok THEN Ok(0) ELSE Err("IO error", path)

\* what delete_single_directory returns: `?` on the removal, then
\* Ok(size_before)
delete_single_result(task, path) ==
    IF task.ok THEN Ok(task.size_before) ELSE Err("IO error", path)

\* a pool that stops waiting once a closure has failed
Joined_early(ts) ==
    \/ \A i \in 1..Len(ts) : ts[i].state = "done"
    \/ /\ \E i \in 1..Len(ts) : ts[i].state = "done" /\ ~ts[i].ok
       /\ \A i \in 1..Len(ts) : ts[i].state \in {"pending", "done"}

\* a pool that returns once every closure has been started
Joined_started(ts) == \A i \in 1..Len(ts) : ts[i].state # "pending"

\* install() returns when for_each has run the closure on every target
Joined(ts) == \A i \in 1..Len(ts) : ts[i].state = "done"

\* stats that take the successes for the candidates
FinalStats_deleted(self, found, c) ==
    CleanupStats(c.deleted_count, c.deleted_count, c.failed_count, c.bytes_freed)

\* stats that leave the bytes to the printed summary
FinalStats_summary(self, found, c) ==
    CleanupStats(found, c.deleted_count, c.failed_count,
                 IF self.show_progress THEN 0 ELSE c.bytes_freed)

\* the CleanupStats built from the counters once the pool has joined
FinalStats(self, found, c) ==
    CleanupStats(found, c.deleted_count, c.failed_count, c.bytes_freed)

\* a counter update that stores its operand in place of adding it
fetch_add_store(value, n) == n

\* AtomicUsize::fetch_add / AtomicU64::fetch_add: one indivisible
\* read-modify-write of the counter
fetch_add(value, n) == value + n

\* format!("{}: {}", target.display(), e): the path string, a colon and a
\* space, then the error's message
ErrorLine(path, msg) == PathStr(path) \o <<":", " ">> \o <<msg>>

\* an error list written without the lock: the line replaces the list
push_unlocked(errors, line) == <<line>>

\* errors.lock(), then errors.push(..): the line is appended
push(errors, line) == Append(errors, line)

\* a pool whose worker is not given back when its closure returns
InProgress_held(t) == t.state # "pending"

\* a worker of the pool is running the closure on the target
InProgress(t) == t.state \in {"probed", "removed", "counted"}

Running == { i \in 1..Len(tasks) : InProgress(tasks[i]) }

----------------------------------------------------------------------------
(* Inputs of the driver and of the deleter *)

MaxCleanupPatterns == 1
MaxTargets == 2

CleanupRoots == { <<>>, <<NodeModules, NameA>> }

CleanupPatternLists == SeqsUpTo({GlobRecursiveA, GlobUnclosed}, MaxCleanupPatterns)

ThreadOptions == { None, Some(1) }

\* the thread counts a caller of Cleaner::new tries
PoolOptions == { Some(0), Some(1), Some(2) }

\* paths a caller may put in a hand-made target list
HandPaths ==
    { <<NameA, NodeModules>>, <<NodeModules>>, <<NodeModules, NameA, NodeModules>>,
      <<NameA>> }

HandLists == SeqsUpTo(HandPaths, MaxTargets)

\* the trees a hand-made list is deleted from: nothing of HandPaths lies
\* in or above /a-b, which is left out
DeleteTrees == { f \in Trees : f[<<NameAB>>] = "none" }

\* the trees on which a pool asked for 0 threads is tried: the
\* node_modules directories of HandPaths exist
ZeroTrees ==
    { f \in DeleteTrees :
        /\ f[<<NameA, NodeModules>>] = "dir"
        /\ f[<<NodeModules, NameA, NodeModules>>] = "dir" }

SinglePaths == HandPaths \cup { <<NameAB>>, <<NameAB, NodeModules>> }

InitCommon ==
    /\ fs0 = fs
    /\ scanner = NoScanner
    /\ warnings = 0
    /\ result = Pending
    /\ counters = NoCounters
    /\ probed = {}
    /\ removed = {}
    /\ prompts = 0
    /\ confirmation = ""
    /\ progress = NoProgress
    /\ exit_code = <<>>
    /\ previous = Pending
    /\ visited = {}

InitCleanup ==
    /\ fs \in Trees
    /\ op = "cleanup_node_modules"
    /\ root_path \in CleanupRoots
    /\ config \in [exclude_patterns : CleanupPatternLists, dry_run : BOOLEAN,
                   no_confirm : BOOLEAN, quiet : BOOLEAN, threads : ThreadOptions]
    /\ targets = <<>>
    /\ cleaner = NoCleaner
    /\ tasks = <<>>
    /\ pc = "start"

InitDelete ==
    /\ fs \in DeleteTrees
    /\ op = "delete_directories"
    /\ root_path = <<>>
    /\ config \in { [DefaultConfig EXCEPT !.threads = threads] :
                        threads \in PoolOptions }
    /\ targets \in HandLists
    /\ \E show_progress \in BOOLEAN, test_environment \in BOOLEAN :
          cleaner = CleanerNew(config.threads, show_progress, test_environment)
    /\ config.threads = Some(0) => (fs \in ZeroTrees /\ ~cleaner.show_progress)
    /\ tasks = <<>>
    /\ pc = "delete"

InitSingle ==
    /\ fs \in Trees
    /\ op = "delete_single_directory"
    /\ root_path = <<>>
    /\ config = DefaultConfig
    /\ \E path \in SinglePaths : targets = <<path>>
    /\ cleaner = CleanerNew(Some(1), FALSE, FALSE)
    /\ tasks = <<NewTask>>
    /\ pc = "single"

Init == (InitCleanup \/ InitDelete \/ InitSingle) /\ InitCommon

----------------------------------------------------------------------------
(* lib.rs: cleanup_node_modules *)

\* an early return that forgets the candidates
FoundOnly_none(found) == DefaultStats

\* CleanupStats { directories_found: targets.len(), ..Default::default() }
FoundOnly(found) == CleanupStats(Len(found), 0, 0, 0)

\* a driver that forgets the dry-run return
ScanOutcome_nodry(cfg, found) ==
    IF found = <<>> THEN "empty"
    ELSE IF ~cfg.no_confirm /\ ~cfg.quiet THEN "confirm"
    ELSE "delete"

\* a driver that asks even when it was told to be quiet
ScanOutcome_noquiet(cfg, found) ==
    IF found = <<>> THEN "empty"
    ELSE IF cfg.dry_run THEN "dry_run"
    ELSE IF ~cfg.no_confirm THEN "confirm"
    ELSE "delete"

\* a driver that forgets the early return of an empty scan
ScanOutcome_noempty(cfg, found) ==
    IF cfg.dry_run THEN "dry_run"
    ELSE IF ~cfg.no_confirm /\ ~cfg.quiet THEN "confirm"
    ELSE "delete"

\* where the driver goes once the scan has returned its candidates
ScanOutcome(cfg, found) ==
    IF found = <<>> THEN "empty"
    ELSE IF cfg.dry_run THEN "dry_run"
    ELSE IF ~cfg.no_confirm /\ ~cfg.quiet THEN "confirm"
    ELSE "delete"

\* the scan, and the returns that need nothing more than the scan
CleanupScan ==
    /\ op = "cleanup_node_modules"
    /\ pc = "start"
    /\ scanner' = ScannerNew(root_path, config.exclude_patterns)
    /\ warnings' = warnings + CompilePatterns(config.exclude_patterns, 1).warned
    /\ \E scan \in { [found |-> find_node_modules_dirs(fs, scanner', order),
                        seen |-> Visited(fs, scanner', order)] : order \in Orders } :
         LET found == scan.found
             outcome == ScanOutcome(config, found.value)
         IN  /\ targets' = found.value
             /\ visited' = scan.seen
             /\ IF found.kind = "Err"
                THEN result' = found /\ pc' = "done"
                ELSE CASE outcome = "empty" ->
                            result' = Ok(DefaultStats) /\ pc' = "done"
                       [] outcome = "dry_run" ->
                            /\ result' = Ok(FoundOnly(found.value))
                            /\ pc' = "done"
                       [] outcome = "confirm" ->
                            result' = result /\ pc' = "confirm"
                       [] outcome = "delete" ->
                            result' = result /\ pc' = "delete"
    /\ UNCHANGED <<confirmation, progress, exit_code, previous>>
    /\ UNCHANGED <<fs, fs0, op, root_path, config, tasks, counters, probed,
                   removed, prompts, cleaner>>

\* a driver that goes on whatever the user answered
AfterConfirmation_ignore(ans) ==
    IF ans = "error" THEN "error" ELSE "delete"

\* what the driver does with confirm_deletion(&targets)?: the error is
\* returned, false is the early return, true goes on to the deletion
AfterConfirmation(ans) ==
    IF ans = "error" THEN "error"
    ELSE IF ans = "no" THEN "cancel"
    ELSE "delete"

\* cli::confirm_deletion and what the driver does with the answer
ConfirmDeletion ==
    /\ op = "cleanup_node_modules"
    /\ pc = "confirm"
    /\ prompts' = prompts + 1
    /\ \E ans \in {"yes", "no", "error"} :
         /\ confirmation' = ans
         /\ CASE AfterConfirmation(ans) = "delete" ->
                    result' = result /\ pc' = "delete"
              [] AfterConfirmation(ans) = "cancel" ->
                    /\ result' = Ok(FoundOnly(targets))
                    /\ pc' = "done"
              [] AfterConfirmation(ans) = "error" ->
                    /\ result' = Err("IO error", <<>>)
                    /\ pc' = "done"
    /\ UNCHANGED <<progress, exit_code, previous, visited>>
    /\ UNCHANGED <<fs, fs0, op, root_path, config, scanner, warnings, targets,
                   tasks, counters, probed, removed, cleaner>>

----------------------------------------------------------------------------
(* cleaner.rs: Cleaner::delete_directories *)

\* the head of delete_directories: the safety check, the empty list, the
\* counters
\* counters, and the progress bar when self.show_progress; the template is
\* the constant of line 66, which the style accepts
BeginDelete(self) ==
    LET checked == validate_targets(targets)
    IN  IF checked.kind = "Err"
        THEN /\ result' = checked /\ pc' = "done"
             /\ UNCHANGED <<tasks, counters, progress>>
        ELSE IF targets = <<>>
        THEN /\ result' = Ok(DefaultStats) /\ pc' = "done"
             /\ UNCHANGED <<tasks, counters, progress>>
        ELSE /\ tasks' = [i \in 1..Len(targets) |-> NewTask]
             /\ counters' = NoCounters
             /\ progress' = [NoProgress EXCEPT !.bar = self.show_progress,
                                               !.len = IF self.show_progress
                                                       THEN Len(targets) ELSE 0]
             /\ result' = result
             /\ pc' = "deleting"

\* the driver builds the Cleaner and calls delete_directories
CleanupDelete ==
    /\ op = "cleanup_node_modules"
    /\ pc = "delete"
    /\ \E test_environment \in BOOLEAN :
         cleaner' = CleanerNew(config.threads, ~config.quiet, test_environment)
    /\ BeginDelete(cleaner')
    /\ UNCHANGED <<confirmation, exit_code, previous, visited>>
    /\ UNCHANGED <<fs, fs0, op, root_path, config, scanner, warnings, targets,
                   probed, removed, prompts>>

\* a caller calls delete_directories with its own list
DeleteDirectories ==
    /\ op = "delete_directories"
    /\ pc = "delete"
    /\ BeginDelete(cleaner)
    /\ UNCHANGED <<confirmation, exit_code, previous, visited>>
    /\ UNCHANGED <<fs, fs0, op, root_path, config, scanner, warnings, targets,
                   probed, removed, prompts, cleaner>>

\* delete_single_directory, first half: a worker takes target i and probes
\* its size
TaskProbe(i) ==
    /\ pc \in {"deleting", "single"}
    /\ tasks[i].state = "pending"
    /\ Cardinality(Running) < cleaner.num_threads
    /\ LET size == calculate_directory_size(fs, targets[i])
       IN  tasks' = [tasks EXCEPT ![i] =
                        [@ EXCEPT !.state = "probed",
                                  !.probe = size.kind,
                                  !.size_before =
                                      IF size.kind = "Ok" THEN size.value ELSE 0]]
    /\ probed' = probed \cup {targets[i]}
    /\ UNCHANGED <<confirmation, progress, exit_code, previous, visited>>
    /\ UNCHANGED <<fs, fs0, op, root_path, config, scanner, warnings, targets,
                   pc, result, counters, removed, prompts, cleaner>>

\* delete_single_directory, second half: the recursive remove
TaskRemove(i) ==
    /\ pc \in {"deleting", "single"}
    /\ tasks[i].state = "probed"
    /\ LET r == remove_dir_all(fs, targets[i])
       IN  /\ fs' = r.fs
           /\ tasks' = [tasks EXCEPT ![i] =
                            [@ EXCEPT !.state = "removed", !.ok = r.ok,
                                      !.attempts = @ + 1,
                                      !.seen = Kind(fs, targets[i])]]
           /\ removed' = removed \cup {[path |-> targets[i], by |-> op, ok |-> r.ok]}
    /\ UNCHANGED <<confirmation, progress, exit_code, previous, visited>>
    /\ UNCHANGED <<fs0, op, root_path, config, scanner, warnings, targets, pc,
                   result, counters, probed, prompts, cleaner>>

\* pb.inc(1), then the first fetch_add of the match on the task's result
TaskCount(i) ==
    /\ pc = "deleting"
    /\ tasks[i].state = "removed"
    /\ progress' = IF progress.bar THEN [progress EXCEPT !.pos = @ + 1]
                   ELSE progress
    /\ counters' =
         IF delete_single_result(tasks[i], targets[i]).kind = "Ok"
         THEN [counters EXCEPT !.deleted_count = fetch_add(@, 1)]
         ELSE [counters EXCEPT !.failed_count = fetch_add(@, 1)]
    /\ tasks' = [tasks EXCEPT ![i] = [@ EXCEPT !.state = "counted"]]
    /\ UNCHANGED <<confirmation, exit_code, previous, visited>>
    /\ UNCHANGED <<fs, fs0, op, root_path, config, scanner, warnings, targets,
                   pc, result, probed, removed, prompts, cleaner>>

\* the second update: the bytes of a success, the error line of a failure
TaskFold(i) ==
    /\ pc = "deleting"
    /\ tasks[i].state = "counted"
    /\ LET r == delete_single_result(tasks[i], targets[i])
       IN  counters' =
             IF r.kind = "Ok"
             THEN [counters EXCEPT !.bytes_freed = fetch_add(@, r.value)]
             ELSE [counters EXCEPT !.errors =
                      push(@, ErrorLine(targets[i], r.error.msg))]
    /\ tasks' = [tasks EXCEPT ![i] = [@ EXCEPT !.state = "done"]]
    /\ UNCHANGED <<confirmation, progress, exit_code, previous, visited>>
    /\ UNCHANGED <<fs, fs0, op, root_path, config, scanner, warnings, targets,
                   pc, result, probed, removed, prompts, cleaner>>

\* the pool has joined: finish the bar, print the errors and the summary
\* when self.show_progress, snapshot the counters into the stats
Finish ==
    /\ pc = "deleting"
    /\ Joined(tasks)
    /\ progress' = [progress EXCEPT
                       !.finished = progress.bar,
                       !.errors_printed = IF cleaner.show_progress
                                          THEN Len(counters.errors) ELSE 0,
                       !.summary = cleaner.show_progress]
    /\ result' = Ok(FinalStats(cleaner, Len(targets), counters))
    /\ pc' = "done"
    /\ UNCHANGED <<confirmation, exit_code, previous, visited>>
    /\ UNCHANGED <<fs, fs0, op, root_path, config, scanner, warnings, targets,
                   tasks, counters, probed, removed, prompts, cleaner>>

\* a direct call of delete_single_directory returns
SingleReturn ==
    /\ pc = "single"
    /\ tasks[1].state = "removed"
    /\ result' = delete_single_result(tasks[1], targets[1])
    /\ pc' = "done"
    /\ UNCHANGED <<confirmation, progress, exit_code, previous, visited>>
    /\ UNCHANGED <<fs, fs0, op, root_path, config, scanner, warnings, targets,
                   tasks, counters, probed, removed, prompts, cleaner>>

----------------------------------------------------------------------------
(* The environment: another process removes a target while the tool runs *)

MaxEnvRemovals == 1

EnvRemove ==
    /\ pc \in {"confirm", "delete", "deleting"}
    /\ Cardinality({ r \in removed : r.by = "env" }) < MaxEnvRemovals
    /\ \E i \in 1..Len(targets) :
         /\ Kind(fs, targets[i]) = "dir"
         /\ fs' = remove_dir_all(fs, targets[i]).fs
         /\ removed' = removed \cup {[path |-> targets[i], by |-> "env", ok |-> TRUE]}
    /\ UNCHANGED <<confirmation, progress, exit_code, previous, visited>>
    /\ UNCHANGED <<fs0, op, root_path, config, scanner, warnings, targets, pc,
                   result, tasks, counters, probed, prompts, cleaner>>

\* a binary that looks at the error only
exit_status_errors(res) ==
    IF res.kind = "Err" THEN 1 ELSE 0

\* main.rs: process::exit(1) on Err(e) from run() and on
\* stats.directories_failed > 0, otherwise the process ends with status 0
exit_status(res) ==
    IF res.kind = "Err" THEN 1
    ELSE IF res.value.directories_failed > 0 THEN 1
    ELSE 0

\* the binary: cleanup_node_modules has returned to run()
Exit ==
    /\ op = "cleanup_node_modules"
    /\ pc = "done"
    /\ exit_code' = <<exit_status(result)>>
    /\ pc' = "exited"
    /\ UNCHANGED <<fs, fs0, op, root_path, config, scanner, warnings, targets,
                   result, tasks, counters, probed, removed, prompts, cleaner,
                   confirmation, progress, previous, visited>>

Probe == \E i \in 1..Len(tasks) : TaskProbe(i)
Remove == \E i \in 1..Len(tasks) : TaskRemove(i)
Count == \E i \in 1..Len(tasks) : TaskCount(i)
Fold == \E i \in 1..Len(tasks) : TaskFold(i)

Next ==
    \/ CleanupScan
    \/ ConfirmDeletion
    \/ CleanupDelete
    \/ DeleteDirectories
    \/ Probe
    \/ Remove
    \/ Count
    \/ Fold
    \/ Finish
    \/ SingleReturn
    \/ EnvRemove
    \/ Exit

Spec == Init /\ [][Next]_vars

----------------------------------------------------------------------------
(* A dry run, then the same call without dry_run on the untouched tree *)

InitTwice ==
    /\ InitCleanup
    /\ config.dry_run
    /\ InitCommon

\* the caller takes the dry run's value and calls cleanup_node_modules
\* again with dry_run = false and nothing else changed
Rerun ==
    /\ op = "cleanup_node_modules"
    /\ pc = "done"
    /\ config.dry_run
    /\ previous' = result
    /\ config' = [config EXCEPT !.dry_run = FALSE]
    /\ scanner' = NoScanner
    /\ warnings' = 0
    /\ targets' = <<>>
    /\ result' = Pending
    /\ visited' = {}
    /\ pc' = "start"
    /\ UNCHANGED <<fs, fs0, op, root_path, tasks, counters, probed, removed,
                   prompts, cleaner, confirmation, progress, exit_code>>

NextTwice ==
    \/ CleanupScan
    \/ Rerun
    \/ ConfirmDeletion
    \/ CleanupDelete
    \/ Probe
    \/ Remove
    \/ Count
    \/ Fold
    \/ Finish

SpecTwice == InitTwice /\ [][NextTwice]_vars

----------------------------------------------------------------------------
(* delete_directories under fair scheduling of the pool's workers *)

\* trees in which /a/node_modules holds its file
FairTrees == { f \in DeleteTrees : f[<<NameA, NodeModules, NameA>>] = "file" }

InitFair ==
    /\ fs \in FairTrees
    /\ op = "delete_directories"
    /\ root_path = <<>>
    /\ config \in { [DefaultConfig EXCEPT !.threads = threads] :
                        threads \in {Some(1), Some(2)} }
    /\ targets \in HandLists
    /\ cleaner = CleanerNew(config.threads, FALSE, FALSE)
    /\ tasks = <<>>
    /\ pc = "delete"
    /\ InitCommon

NextFair ==
    \/ DeleteDirectories
    \/ Probe
    \/ Remove
    \/ Count
    \/ Fold
    \/ Finish
    \/ EnvRemove

\* the caller's thread and every worker that can take a step get to take
\* it; the environment is under no obligation
Fairness ==
    /\ WF_vars(DeleteDirectories)
    /\ WF_vars(Probe)
    /\ WF_vars(Remove)
    /\ WF_vars(Count)
    /\ WF_vars(Fold)
    /\ WF_vars(Finish)

SpecFair == InitFair /\ [][NextFair]_vars /\ Fairness

----------------------------------------------------------------------------
(* The safety validator on its own *)

MaxValidate == 3

ValidatePaths ==
    { <<NameA, NodeModules>>, <<NodeModules>>, <<NameA>>, <<NodeModules, NameA>>,
      <<NodeModules, DotDot>> }

InitValidate ==
    /\ fs = [p \in Universe |-> "none"]
    /\ InitCommon
    /\ op = "validate_targets"
    /\ root_path = <<>>
    /\ config = DefaultConfig
    /\ targets \in SeqsUpTo(ValidatePaths, MaxValidate)
    /\ cleaner = NoCleaner
    /\ tasks = <<>>
    /\ pc = "start"

Validate ==
    /\ op = "validate_targets"
    /\ pc = "start"
    /\ result' = validate_targets(targets)
    /\ pc' = "done"
    /\ UNCHANGED <<confirmation, progress, exit_code, previous, visited>>
    /\ UNCHANGED <<fs, fs0, op, root_path, config, scanner, warnings, targets,
                   tasks, counters, probed, removed, prompts, cleaner>>

NextValidate == Validate

SpecValidate == InitValidate /\ [][NextValidate]_vars

----------------------------------------------------------------------------
(* Properties *)

\* the terminal component of a path is literally node_modules
EndsWithNodeModules(p) == Len(p) > 0 /\ p[Len(p)] = NodeModules

\* the walk from root reaches d: no path from the root down to d is an
\* entry named node_modules with a node_modules component above it
Walked(root, d) ==
    /\ IsPrefix(root, d)
    /\ \A k \in Len(root)..Len(d) :
          (k > 0 /\ d[k] = NodeModules) => \A j \in 1..(k - 1) : d[j] # NodeModules

\* the root is missing, or the walk comes to a directory it cannot read
ScanFails(f, root) ==
    \/ Kind(f, root) = "none"
    \/ \E d \in Universe : Walked(root, d) /\ f[d] = "locked"

Offenders(paths) == { i \in 1..Len(paths) : ~EndsWithNodeModules(paths[i]) }

RemovedBy(who) == { r \in removed : r.by \in who /\ r.ok }

\* C1 as claimed: whatever public operation ran, every directory the tool
\* removed has terminal component node_modules.
C1_OnlyNodeModulesRemoved ==
    \A r \in RemovedBy({"cleanup_node_modules", "delete_directories",
                        "delete_single_directory"}) :
        EndsWithNodeModules(r.path)

\* C1 amended: every directory removed by cleanup_node_modules or by
\* delete_directories has terminal component node_modules;
\* delete_single_directory removes the path it is given, unchecked.
C1_ValidatedOperationsRemoveOnlyNodeModules ==
    \A r \in RemovedBy({"cleanup_node_modules", "delete_directories"}) :
        EndsWithNodeModules(r.path)

\* delete_directories has removed both directories of a two-path list
C1_Witness ==
    /\ pc = "done"
    /\ op = "delete_directories"
    /\ Len(targets) = 2
    /\ targets[1] # targets[2]
    /\ \A i \in 1..2 : [path |-> targets[i], by |-> op, ok |-> TRUE] \in removed

\* C2: a target list with an offending path is refused as a whole by
\* delete_directories: the call returns the error and no path of the list
\* was size-probed or handed to the recursive remove.
C2_BatchRefused ==
    (op = "delete_directories" /\ Offenders(targets) # {}) =>
        /\ probed = {}
        /\ \A r \in removed : r.by # op
        /\ tasks = <<>>
        /\ pc \in {"delete", "done"}
        /\ pc = "done" => result.kind = "Err"

\* a refused list whose first path is an existing node_modules directory
C2_Witness ==
    /\ op = "delete_directories"
    /\ pc = "done"
    /\ result.kind = "Err"
    /\ Len(targets) = 2
    /\ EndsWithNodeModules(targets[1])
    /\ Kind(fs, targets[1]) = "dir"
    /\ ~EndsWithNodeModules(targets[2])
    /\ Kind(fs, targets[2]) = "dir"

\* C3: validate_targets is Ok exactly when every path ends with
\* node_modules, and otherwise its error names the first offender in list
\* order.
C3_ValidateTargets ==
    (op = "validate_targets" /\ pc = "done") =>
        /\ result.kind = "Ok" <=> Offenders(targets) = {}
        /\ result.kind = "Err" =>
              \E k \in Offenders(targets) :
                  /\ \A j \in Offenders(targets) : k <= j
                  /\ result.error.path = targets[k]
                  /\ result.error.msg = "Safety check failed"

\* two different offenders after a good path: the first one is named
C3_Witness ==
    /\ op = "validate_targets"
    /\ pc = "done"
    /\ result.kind = "Err"
    /\ Len(targets) = 3
    /\ Offenders(targets) = {2, 3}
    /\ targets[2] # targets[3]

\* the empty list is accepted
C3_WitnessEmpty ==
    op = "validate_targets" /\ pc = "done" /\ targets = <<>> /\ result.kind = "Ok"


Range(seq) == { seq[i] : i \in 1..Len(seq) }

ScanReturned == op = "find_node_modules_dirs" /\ pc = "done" /\ result.kind = "Ok"

\* C4: every path the scanner returns ends with node_modules and is a
\* directory, so the scanner's output passes the safety validator.
C4_OutputIsNodeModulesDirs ==
    ScanReturned =>
        /\ \A i \in 1..Len(targets) :
              EndsWithNodeModules(targets[i]) /\ Kind(fs, targets[i]) = "dir"
        /\ Offenders(result.value) = {}

\* a scan that returned a directory while a file or a symbolic link named
\* node_modules sits in the tree
C4_Witness ==
    /\ ScanReturned
    /\ Len(targets) >= 1
    /\ fs[<<NameAB, NodeModules>>] \in {"file", "link"}
    /\ IsPrefix(root_path, <<NameAB, NodeModules>>)

\* C5: no returned path has a proper ancestor named node_modules, at or
\* below the scan root or above it; a node_modules nested in another one
\* is never returned.
C5_TopLevelOnly ==
    ScanReturned =>
        \A i \in 1..Len(targets) :
            \A n \in 1..(Len(targets[i]) - 1) : targets[i][n] # NodeModules

\* the tree holds a node_modules nested in a returned node_modules
C5_Witness ==
    /\ ScanReturned
    /\ root_path = <<>>
    /\ fs[<<NodeModules, NameA, NodeModules>>] = "dir"
    /\ <<NodeModules>> \in Range(targets)

\* the proper ancestors of d that lie at or below the scan root
AncestorsUnderRoot(d) ==
    { SubSeq(d, 1, n) : n \in Len(root_path)..(Len(d) - 1) }

SomePatternMatches(sc, d) ==
    \E k \in 1..Len(sc.exclude_patterns) :
        PatternMatches(sc.exclude_patterns[k], PathStr(d))

\* C6: a directory at or below the root is returned exactly when it is
\* named node_modules, no proper ancestor of it at or below the root is
\* named node_modules, and no compiled pattern matches its path string,
\* whatever the components of the root's own path are.
C6_ScannerComplete ==
    ScanReturned =>
        \A d \in Universe \cup {root_path} :
            (Kind(fs, d) = "dir" /\ IsPrefix(root_path, d)) =>
                (d \in Range(targets) <=>
                    /\ EndsWithNodeModules(d)
                    /\ \A q \in AncestorsUnderRoot(d) : ~EndsWithNodeModules(q)
                    /\ ~SomePatternMatches(scanner, d))

\* byte-wise lexicographic order of two character sequences
StrLess(s, t) ==
    \E k \in 0..Len(s) :
        /\ k <= Len(t)
        /\ SubSeq(s, 1, k) = SubSeq(t, 1, k)
        /\ \/ k = Len(s) /\ k < Len(t)
           \/ k < Len(s) /\ k < Len(t) /\ Code(s[k + 1]) < Code(t[k + 1])

\* lexicographic order of two paths, component by component
ComponentwiseLeq(p, q) ==
    \/ p = q
    \/ \E k \in 0..Len(p) :
        /\ k <= Len(q)
        /\ SubSeq(p, 1, k) = SubSeq(q, 1, k)
        /\ \/ k = Len(p) /\ k < Len(q)
           \/ k < Len(p) /\ k < Len(q) /\ StrLess(p[k + 1], q[k + 1])

\* C7 as claimed: adjacent returned paths are in lexicographic order of
\* their full path strings.
C7_SortedByPathString ==
    ScanReturned =>
        \A i \in 1..(Len(targets) - 1) :
            \/ PathStr(targets[i]) = PathStr(targets[i + 1])
            \/ StrLess(PathStr(targets[i]), PathStr(targets[i + 1]))

\* C7 amended: adjacent returned paths are in lexicographic order of
\* their component sequences, each component compared byte-wise.
C7_SortedByComponents ==
    ScanReturned =>
        \A i \in 1..(Len(targets) - 1) :
            ComponentwiseLeq(targets[i], targets[i + 1])

\* a/node_modules and a-b/node_modules are both returned
C7_Witness ==
    /\ ScanReturned
    /\ <<NameA, NodeModules>> \in Range(targets)
    /\ <<NameAB, NodeModules>> \in Range(targets)

Compiles(pattern) == PatternNew(pattern).ok

\* C9: Scanner::new keeps exactly the patterns that compile, in input
\* order, warns once per malformed pattern, and the scan that follows
\* succeeds and filters with the valid patterns only.
C9_OnlyValidPatterns ==
    (op = "find_node_modules_dirs" /\ pc \in {"scan", "done", "again"}) =>
        LET valid == SelectSeq(config.exclude_patterns, Compiles)
        IN  /\ Len(scanner.exclude_patterns) = Len(valid)
            /\ \A k \in 1..Len(valid) :
                  /\ scanner.exclude_patterns[k].original = valid[k]
                  /\ scanner.exclude_patterns[k].tokens = PatternNew(valid[k]).tokens
            /\ warnings = Len(config.exclude_patterns) - Len(valid)
            /\ pc \in {"done", "again"} =>
                  /\ result.kind = "Ok" <=> ~ScanFails(fs, root_path)
                  /\ \A i \in 1..Len(targets), k \in 1..Len(valid) :
                        ~PatternMatches(PatternNew(valid[k]), PathStr(targets[i]))

\* a malformed pattern ahead of a valid one: one warning, one pattern kept,
\* and the scan used it
C9_Witness ==
    /\ ScanReturned
    /\ Len(config.exclude_patterns) = 2
    /\ ~Compiles(config.exclude_patterns[1])
    /\ Compiles(config.exclude_patterns[2])
    /\ warnings = 1
    /\ Len(targets) >= 1
    /\ \E d \in Universe :
          /\ Kind(fs, d) = "dir" /\ EndsWithNodeModules(d) /\ IsPrefix(root_path, d)
          /\ SomePatternMatches(scanner, d)

CleanupReturned == op = "cleanup_node_modules" /\ pc = "done"

\* the node_modules directories below the root that a compiled pattern
\* matched when the run started
Excluded ==
    { d \in Universe :
        /\ Kind(fs0, d) = "dir" /\ EndsWithNodeModules(d) /\ IsPrefix(root_path, d)
        /\ SomePatternMatches(scanner, d) }

C10_DryRunChangesNothing ==
    (op = "cleanup_node_modules" /\ config.dry_run) =>
        /\ probed = {}
        /\ removed = {}
        /\ prompts = 0
        /\ tasks = <<>>
        /\ fs = fs0
        /\ pc \in {"start", "done", "exited"}
        /\ pc \in {"done", "exited"} =>
              \/ result.kind = "Err" /\ ScanFails(fs, root_path)
              \/ /\ result.kind = "Ok"
                 /\ result.value = CleanupStats(Len(targets), 0, 0, 0)

\* a dry run over two candidates with the prompt not suppressed
C10_Witness ==
    /\ CleanupReturned
    /\ config.dry_run /\ ~config.no_confirm /\ ~config.quiet
    /\ result.kind = "Ok"
    /\ result.value.directories_found >= 2

\* cleanup_node_modules has returned or the process has exited
CleanupOver == op = "cleanup_node_modules" /\ pc \in {"done", "exited"}

\* C11 as claimed: every non-dry-run invocation that returns Stats,
\* cancelled ones included, has directories_deleted + directories_failed
\* equal to directories_found.
C11_Conservation ==
    (CleanupOver /\ ~config.dry_run /\ result.kind = "Ok") =>
        result.value.directories_deleted + result.value.directories_failed
            = result.value.directories_found

\* C11 amended: in a non-dry-run that returns Stats, deleted + failed never
\* exceeds found; it equals found unless the prompt was answered
\* negatively, and then found is the number of candidates with deleted and
\* failed both 0.
C11_ConservationUnlessCancelled ==
    (CleanupOver /\ ~config.dry_run /\ result.kind = "Ok") =>
        LET st == result.value
        IN  /\ st.directories_found = Len(targets)
            /\ st.directories_deleted + st.directories_failed <= st.directories_found
            /\ confirmation # "no" =>
                  st.directories_deleted + st.directories_failed = st.directories_found
            /\ confirmation = "no" =>
                  st.directories_deleted = 0 /\ st.directories_failed = 0

\* a confirmed run in which one deletion succeeded and another failed
C11_Witness ==
    /\ CleanupOver
    /\ ~config.dry_run
    /\ confirmation = "yes"
    /\ result.kind = "Ok"
    /\ result.value.directories_deleted >= 1
    /\ result.value.directories_failed >= 1

\* delete_directories got past the safety check and ran its pool
DeletionOver ==
    /\ op \in {"cleanup_node_modules", "delete_directories"}
    /\ pc \in {"done", "exited"}
    /\ tasks # <<>>

\* nothing but its own task touches target i: no other target of the list
\* is the same path or an ancestor, and nobody else removed it
Undisturbed(i) ==
    /\ \A j \in 1..Len(targets) : j # i => ~IsPrefix(targets[j], targets[i])
    /\ \A r \in removed : r.by = "env" => ~IsPrefix(r.path, targets[i])

\* C12: once the list has passed the safety check, remove_dir_all is
\* called exactly once on every target, delete_directories returns Ok
\* whatever the outcomes, a target that was gone when its turn came is
\* counted in directories_failed, and a removable target that nothing else
\* touched is deleted and counted in directories_deleted.
C12_FailureDoesNotAbort ==
    /\ pc = "deleting" => \A i \in 1..Len(tasks) : tasks[i].attempts <= 1
    /\ DeletionOver =>
          /\ result.kind = "Ok"
          /\ Len(tasks) = Len(targets)
          /\ \A i \in 1..Len(tasks) :
                /\ tasks[i].attempts = 1
                /\ tasks[i].seen = "none" => ~tasks[i].ok
                /\ ( /\ Kind(fs0, targets[i]) = "dir"
                     /\ { q \in Universe : IsPrefix(targets[i], q) /\ fs0[q] = "locked" } = {}
                     /\ Undisturbed(i) ) => tasks[i].ok
          /\ result.value.directories_failed =
                Cardinality({ i \in 1..Len(tasks) : ~tasks[i].ok })
          /\ result.value.directories_deleted =
                Cardinality({ i \in 1..Len(tasks) : tasks[i].ok })

\* one of two targets was removed by somebody else before its turn: it is
\* counted as failed, the other one as deleted
C12_Witness ==
    /\ DeletionOver
    /\ Len(targets) = 2
    /\ \E i, j \in 1..2 :
          /\ i # j
          /\ tasks[i].seen = "none"
          /\ [path |-> targets[i], by |-> "env", ok |-> TRUE] \in removed
          /\ tasks[j].ok
    /\ result.value.directories_failed = 1
    /\ result.value.directories_deleted = 1

RECURSIVE SumOver(_, _)
SumOver(S, f) ==
    IF S = {} THEN 0
    ELSE LET x == CHOOSE y \in S : TRUE IN f[x] + SumOver(S \ {x}, f)

\* the bytes of the regular files at or below path in the tree f
BytesBelow(f, path) ==
    LET files == { q \in Universe : IsPrefix(path, q) /\ f[q] = "file" }
    IN  SumOver(files, [q \in files |-> FileLen(q)])

\* C13: bytes_freed is the sum of the probed sizes of exactly the targets
\* whose removal succeeded; a failed probe counts as 0, and the probe of a
\* target nothing else touched is the size of the files below it when the
\* call started.
C13_BytesFreed ==
    DeletionOver =>
        LET done == 1..Len(tasks)
            succeeded == { i \in done : tasks[i].ok }
        IN  /\ result.value.bytes_freed =
                  SumOver(succeeded, [i \in succeeded |-> tasks[i].size_before])
            /\ \A i \in done :
                  /\ tasks[i].probe = "Err" => tasks[i].size_before = 0
                  /\ ( /\ Kind(fs0, targets[i]) = "dir"
                       /\ { q \in Universe : IsPrefix(targets[i], q) /\ fs0[q] = "locked" } = {}
                       /\ Undisturbed(i) ) =>
                         tasks[i].size_before = BytesBelow(fs0, targets[i])

\* two tasks probed a non-empty directory, one removed it, the other one
\* failed: only the bytes of the first are counted
C13_Witness ==
    /\ DeletionOver
    /\ \E i, j \in 1..Len(tasks) :
          /\ tasks[i].ok /\ tasks[i].size_before > 0
          /\ ~tasks[j].ok /\ tasks[j].probe = "Ok" /\ tasks[j].size_before > 0
          /\ result.value.bytes_freed = tasks[i].size_before

\* C14: after a negative answer cleanup_node_modules has returned the
\* value a dry run returns, directories_found = number of candidates and
\* zeros elsewhere; no Cleaner was built, no target was validated, probed
\* or removed by the tool, and the tree is as it was unless somebody else
\* changed it.
C14_NegativeAnswerIsDryRun ==
    (op = "cleanup_node_modules" /\ confirmation = "no") =>
        /\ pc \in {"done", "exited"}
        /\ prompts = 1
        /\ Len(targets) >= 1
        /\ result = Ok(CleanupStats(Len(targets), 0, 0, 0))
        /\ cleaner = NoCleaner
        /\ tasks = <<>>
        /\ progress = NoProgress
        /\ probed = {}
        /\ \A r \in removed : r.by = "env"
        /\ removed = {} => fs = fs0

\* the user declined the deletion of two candidates
C14_Witness ==
    /\ CleanupOver
    /\ confirmation = "no"
    /\ result.kind = "Ok"
    /\ result.value.directories_found = 2
    /\ \A i \in 1..2 : Kind(fs, targets[i]) = "dir"

\* the scan found something, and the configuration asks for a confirmation
MustAsk ==
    /\ targets # <<>>
    /\ ~config.dry_run
    /\ ~config.no_confirm
    /\ ~config.quiet

\* the tool has started on the deletion: a Cleaner, a task, a probe or a
\* removal of its own
DeletionStarted ==
    \/ pc \in {"delete", "deleting"}
    \/ cleaner # NoCleaner
    \/ tasks # <<>>
    \/ probed # {}
    \/ \E r \in removed : r.by = op

\* C15: once the scan is over, confirm_deletion is called (once) exactly
\* when the result is non-empty and dry_run, no_confirm and quiet are all
\* false, and then nothing of the deletion starts before the answer is
\* positive; in every other non-dry-run with a non-empty result the driver
\* goes on to the deletion without asking.
C15_PromptExactlyWhenRequired ==
    (op = "cleanup_node_modules" /\ pc # "start") =>
        /\ prompts <= 1
        /\ pc = "confirm" => prompts = 0
        /\ (pc = "confirm" \/ prompts = 1) <=> MustAsk
        /\ prompts = 0 <=> confirmation = ""
        /\ (MustAsk /\ DeletionStarted) => confirmation = "yes"
        /\ (targets # <<>> /\ ~config.dry_run /\ ~MustAsk) =>
              /\ prompts = 0
              /\ pc \in {"delete", "deleting", "done", "exited"}
              /\ pc \in {"done", "exited"} =>
                    /\ tasks # <<>>
                    /\ \A i \in 1..Len(tasks) : tasks[i].attempts = 1

\* quiet without no_confirm: a candidate was deleted and nobody was asked
C15_Witness ==
    /\ CleanupOver
    /\ config.quiet /\ ~config.no_confirm /\ ~config.dry_run
    /\ prompts = 0
    /\ result.kind = "Ok"
    /\ result.value.directories_deleted >= 1

\* the prompt was needed and answered positively before the first removal
C15_WitnessAsked ==
    /\ CleanupOver
    /\ MustAsk
    /\ prompts = 1
    /\ confirmation = "yes"
    /\ result.kind = "Ok"
    /\ result.value.directories_deleted >= 1

\* C16: when the root is missing or the walk comes to a directory it
\* cannot read, cleanup_node_modules returns the error of the scan with no
\* candidate list, and it has asked nothing, built no Cleaner, probed
\* nothing and removed nothing.
C16_ScanErrorIsFatal ==
    (op = "cleanup_node_modules" /\ ScanFails(fs0, root_path)) =>
        /\ pc \in {"start", "done", "exited"}
        /\ fs = fs0
        /\ prompts = 0
        /\ cleaner = NoCleaner
        /\ tasks = <<>>
        /\ probed = {}
        /\ removed = {}
        /\ pc # "start" =>
              /\ result.kind = "Err"
              /\ result.value = <<>>
              /\ targets = <<>>

\* the walk from / fails on a directory it cannot read although the tree
\* holds a node_modules directory that no pattern excludes
C16_Witness ==
    /\ CleanupOver
    /\ root_path = <<>>
    /\ ~config.dry_run
    /\ config.exclude_patterns = <<>>
    /\ Kind(fs, <<NameAB>>) = "locked"
    /\ Kind(fs, <<NameA, NodeModules>>) = "dir"
    /\ result.kind = "Err"
    /\ result.error.path = <<NameAB>>

\* the root does not exist
C16_WitnessNoRoot ==
    /\ CleanupOver
    /\ Kind(fs, root_path) = "none"
    /\ Kind(fs, <<NameA, NodeModules>>) = "dir"
    /\ result.kind = "Err"
    /\ result.error.path = root_path

\* C17: the process exits with 1 exactly when cleanup_node_modules
\* returned an error or Stats with directories_failed > 0; it exits with 0
\* after a run that found nothing, a dry run, a cancelled run and a run in
\* which every removal succeeded.
C17_ExitCode ==
    op = "cleanup_node_modules" =>
        /\ exit_code # <<>> <=> pc = "exited"
        /\ pc = "exited" =>
              /\ exit_code \in {<<0>>, <<1>>}
              /\ exit_code = <<1>> <=>
                    \/ result.kind = "Err"
                    \/ result.kind = "Ok" /\ result.value.directories_failed > 0
              /\ result.kind = "Err" => exit_code = <<1>>
              /\ (\E i \in 1..Len(tasks) : ~tasks[i].ok) => exit_code = <<1>>
              /\ confirmation = "no" => exit_code = <<0>>
              /\ (config.dry_run /\ result.kind = "Ok") => exit_code = <<0>>
              /\ (result.kind = "Ok" /\ targets = <<>>) => exit_code = <<0>>
              /\ (tasks # <<>> /\ \A i \in 1..Len(tasks) : tasks[i].ok) =>
                    exit_code = <<0>>

\* cleanup_node_modules returned Ok, one removal had failed: status 1
C17_Witness ==
    /\ op = "cleanup_node_modules"
    /\ pc = "exited"
    /\ result.kind = "Ok"
    /\ result.value.directories_failed = 1
    /\ result.value.directories_deleted = 1
    /\ exit_code = <<1>>

\* the user said no: status 0
C17_WitnessCancelled ==
    /\ op = "cleanup_node_modules"
    /\ pc = "exited"
    /\ confirmation = "no"
    /\ exit_code = <<0>>

\* the non-dry-run that followed a dry run on the same tree has returned
\* Stats, and so had the dry run
SecondRunOver ==
    /\ op = "cleanup_node_modules"
    /\ pc = "done"
    /\ previous.kind = "Ok"
    /\ result.kind = "Ok"

\* C18 as claimed: the directories_found of the dry run equals the
\* directories_deleted and the directories_found of the run that follows
\* (the user not declining it).
C18_DryRunPredictsDeleted ==
    (SecondRunOver /\ confirmation # "no") =>
        /\ previous.value.directories_found = result.value.directories_found
        /\ previous.value.directories_found = result.value.directories_deleted

\* C18 amended: the directories_found of the dry run equals the
\* directories_found of the run that follows; unless the user declines,
\* it equals that run's directories_deleted + directories_failed, and it
\* equals directories_deleted when no candidate holds a directory that
\* cannot be read.
C18_DryRunPredictsFound ==
    SecondRunOver =>
        /\ previous.value = CleanupStats(Len(targets), 0, 0, 0)
        /\ previous.value.directories_found = result.value.directories_found
        /\ confirmation # "no" =>
              /\ previous.value.directories_found =
                    result.value.directories_deleted + result.value.directories_failed
              /\ (\A i \in 1..Len(targets) :
                     { q \in Universe : IsPrefix(targets[i], q) /\ fs0[q] = "locked" } = {})
                    => previous.value.directories_found = result.value.directories_deleted

\* the dry run announced two directories; the run that followed deleted
\* one and failed on the other
C18_Witness ==
    /\ SecondRunOver
    /\ previous.value.directories_found = 2
    /\ result.value.directories_found = 2
    /\ result.value.directories_deleted = 1
    /\ result.value.directories_failed = 1

\* C19: a second find_node_modules_dirs on the unchanged tree, with the
\* same Scanner, returns what the first call returned, the same paths in
\* the same order, in whatever order the directories list their entries.
C19_DeterministicScan ==
    (op = "find_node_modules_dirs" /\ pc = "again") =>
        /\ fs = fs0
        /\ previous.kind = result.kind
        /\ previous.value = result.value
        /\ previous.kind = "Ok" =>
              /\ Len(previous.value) = Len(targets)
              /\ \A i \in 1..Len(targets) : previous.value[i] = targets[i]

\* both scans returned the same three directories, found in three
\* different parent directories
C19_Witness ==
    /\ op = "find_node_modules_dirs"
    /\ pc = "again"
    /\ previous.kind = "Ok"
    /\ root_path = <<>>
    /\ targets = << <<NameA, NodeModules>>, <<NameAB, NodeModules>>, <<NodeModules>> >>
    /\ previous.value = targets

\* the Stats that the target list and the outcome of each target's removal
\* determine
StatsOfOutcomes ==
    LET succeeded == { i \in 1..Len(tasks) : tasks[i].ok }
    IN  CleanupStats(Len(targets),
                     Cardinality(succeeded),
                     Len(tasks) - Cardinality(succeeded),
                     SumOver(succeeded, [i \in succeeded |-> tasks[i].size_before]))

\* C20: what delete_directories returns is determined by the target list
\* and the outcomes of the removals alone, the same with and without the
\* progress bar: the error of the safety check, the default Stats for the
\* empty list, and otherwise the Stats of the outcomes. The bar exists, is
\* advanced once per target and the summary is printed exactly when
\* show_progress is set.
C20_StatsIgnoreProgress ==
    (op \in {"cleanup_node_modules", "delete_directories"}
        /\ pc \in {"done", "exited"} /\ cleaner # NoCleaner) =>
        /\ Offenders(targets) # {} =>
              /\ result.kind = "Err"
              /\ result.error.path = targets[Min(Offenders(targets))]
        /\ targets = <<>> => result = Ok(DefaultStats)
        /\ (Offenders(targets) = {} /\ targets # <<>>) =>
              /\ result = Ok(StatsOfOutcomes)
              /\ progress.bar = cleaner.show_progress
              /\ progress.summary = cleaner.show_progress
              /\ progress.finished = cleaner.show_progress
              /\ progress.pos = IF cleaner.show_progress THEN Len(targets) ELSE 0

\* with the bar: two targets, one deleted with its bytes, one failed, the
\* bar at 2 of 2, the error and the summary printed
C20_Witness ==
    /\ DeletionOver
    /\ cleaner.show_progress
    /\ progress.bar /\ progress.len = 2 /\ progress.pos = 2 /\ progress.finished
    /\ progress.errors_printed = 1 /\ progress.summary
    /\ result = Ok(CleanupStats(2, 1, 1, 5))

\* without the bar: the same Stats, nothing printed
C20_WitnessNoBar ==
    /\ DeletionOver
    /\ ~cleaner.show_progress
    /\ progress = NoProgress
    /\ result = Ok(CleanupStats(2, 1, 1, 5))

\* C21: delete_directories on an empty list, and cleanup_node_modules
\* when the scan returns no candidate, return Stats with four zeros, run
\* no deletion task, never prompt and leave the filesystem as it was,
\* whatever the configuration
C21_EmptyInputIsNoOp ==
    /\ (op = "delete_directories" /\ targets = <<>> /\ pc = "done") =>
          /\ result = Ok(CleanupStats(0, 0, 0, 0))
          /\ tasks = <<>> /\ counters = NoCounters
          /\ probed = {} /\ removed = {} /\ prompts = 0
          /\ fs = fs0
    /\ (op = "cleanup_node_modules" /\ pc # "start" /\ result.kind # "Err"
           /\ targets = <<>>) =>
          /\ pc \in {"done", "exited"}
          /\ result = Ok(CleanupStats(0, 0, 0, 0))
          /\ tasks = <<>> /\ counters = NoCounters /\ cleaner = NoCleaner
          /\ probed = {} /\ removed = {} /\ prompts = 0
          /\ fs = fs0

\* a real run that would have asked, on a tree whose only node_modules
\* directory is excluded, has returned the zeroed Stats
C21_Witness ==
    /\ op = "cleanup_node_modules"
    /\ pc = "done"
    /\ ~config.dry_run /\ ~config.no_confirm /\ ~config.quiet
    /\ config.exclude_patterns # <<>>
    /\ Kind(fs, <<NameA, NodeModules>>) = "dir"
    /\ targets = <<>>
    /\ result = Ok(CleanupStats(0, 0, 0, 0))
    /\ prompts = 0

\* delete_directories has returned from the empty list, progress wanted
C21_WitnessEmptyList ==
    /\ op = "delete_directories"
    /\ pc = "done"
    /\ targets = <<>>
    /\ cleaner.show_progress
    /\ result = Ok(CleanupStats(0, 0, 0, 0))
    /\ progress = NoProgress

\* the entries the filter of the walk is asked about: the root, and what
\* a visited directory holds
Offered(e) ==
    \/ e = root_path
    \/ /\ e \in Universe
       /\ IsProperPrefix(root_path, e)
       /\ fs[e] # "none"
       /\ Parent(e) \in visited
       /\ Kind(fs, Parent(e)) = "dir"

\* the rule of the pruning traversal: no component of the path is
\* node_modules, or the entry is the first node_modules of its path
MayBeVisited(e) ==
    LET found == { k \in 1..Len(e) : e[k] = NodeModules }
    IN  found = {} \/ (e[Len(e)] = NodeModules /\ Min(found) = Len(e))

\* C22: in a scan that succeeds, an entry is visited exactly when its path
\* has no node_modules component or it is the first node_modules of its
\* path, and nothing below a returned node_modules directory is visited
C22_PruningTraversal ==
    (op = "find_node_modules_dirs" /\ pc \in {"done", "again"} /\ result.kind = "Ok") =>
        /\ \A e \in Universe \cup {root_path} :
              Offered(e) => (e \in visited <=> MayBeVisited(e))
        /\ \A t \in Range(targets) : \A e \in visited : ~IsProperPrefix(t, e)

\* C23: a target is removed only after its size probe has returned; a
\* probe that fails counts as 0 and the removal is issued all the same,
\* once; delete_single_directory returns the probed size when the removal
\* succeeds and the removal's error when it fails
C23_ProbeBeforeDelete ==
    /\ \A i \in 1..Len(tasks) :
          /\ tasks[i].attempts >= 1 =>
                tasks[i].probe \in {"Ok", "Err"} /\ targets[i] \in probed
          /\ tasks[i].probe = "Err" => tasks[i].size_before = 0
          /\ tasks[i].state \in {"removed", "counted", "done"} =>
                /\ tasks[i].attempts = 1
                /\ \E r \in removed : r.path = targets[i] /\ r.by = op
    /\ \A r \in removed : r.by # "env" => r.path \in probed
    /\ (op = "delete_single_directory" /\ pc = "done") =>
          /\ tasks[1].attempts = 1
          /\ (tasks[1].probe = "Ok" /\ Kind(fs0, targets[1]) = "dir") =>
                tasks[1].size_before = BytesBelow(fs0, targets[1])
          /\ result = IF tasks[1].ok THEN Ok(tasks[1].size_before)
                      ELSE Err("IO error", targets[1])

\* the probe of a link to nothing failed, the link was removed all the
\* same and the call returned Ok(0)
C23_Witness ==
    /\ op = "delete_single_directory"
    /\ pc = "done"
    /\ tasks[1].probe = "Err"
    /\ tasks[1].ok
    /\ result = Ok(0)

\* a directory holding a file of five bytes was probed, then removed, and
\* the call returned the five bytes
C23_WitnessSize ==
    /\ op = "delete_single_directory"
    /\ pc = "done"
    /\ tasks[1].probe = "Ok"
    /\ tasks[1].ok
    /\ result = Ok(5)

\* nothing at the path: the probe failed, the removal was issued and its
\* error is what the call returned
C23_WitnessMissing ==
    /\ op = "delete_single_directory"
    /\ pc = "done"
    /\ Kind(fs0, targets[1]) = "none"
    /\ tasks[1].probe = "Err"
    /\ tasks[1].attempts = 1
    /\ result = Err("IO error", targets[1])

\* the tasks that have done their first counter update, and those that
\* have done both
HasCounted == { i \in 1..Len(tasks) : tasks[i].state \in {"counted", "done"} }
HasFolded == { i \in 1..Len(tasks) : tasks[i].state = "done" }

\* C24: no update of the shared counters is lost, for every pool size and
\* every interleaving: at each moment deleted_count and failed_count hold
\* one increment per task that has counted its success or its failure,
\* bytes_freed the sizes of the successes that have added theirs; and the
\* Stats returned have directories_deleted = number of successful tasks,
\* directories_failed = number of failed ones, their sum =
\* directories_found = length of the list, bytes_freed = sum of the
\* successful tasks' sizes
C24_NoLostUpdates ==
    (op \in {"delete_directories", "cleanup_node_modules"} /\ tasks # <<>>) =>
        /\ counters.deleted_count = Cardinality({ i \in HasCounted : tasks[i].ok })
        /\ counters.failed_count = Cardinality({ i \in HasCounted : ~tasks[i].ok })
        /\ counters.bytes_freed =
              SumOver({ i \in HasFolded : tasks[i].ok },
                      [i \in 1..Len(tasks) |-> tasks[i].size_before])
        /\ (pc \in {"done", "exited"} /\ result.kind = "Ok") =>
              LET ok == { i \in 1..Len(tasks) : tasks[i].ok }
                  stats == result.value
              IN  /\ stats.directories_deleted = Cardinality(ok)
                  /\ stats.directories_failed = Len(tasks) - Cardinality(ok)
                  /\ stats.directories_deleted + stats.directories_failed
                        = stats.directories_found
                  /\ stats.directories_found = Len(targets)
                  /\ stats.bytes_freed =
                        SumOver(ok, [i \in 1..Len(tasks) |-> tasks[i].size_before])

\* two workers are both between their two counter updates, one after a
\* success and one after a failure
C24_Witness ==
    /\ op = "delete_directories"
    /\ pc = "deleting"
    /\ cleaner.num_threads = 2
    /\ Len(tasks) = 2
    /\ tasks[1].state = "counted" /\ tasks[2].state = "counted"
    /\ tasks[1].ok /\ ~tasks[2].ok
    /\ tasks[1].size_before = 5
    /\ counters.deleted_count = 1 /\ counters.failed_count = 1
    /\ counters.bytes_freed = 0

\* two successes counted by two workers, and returned
C24_WitnessReturned ==
    /\ op = "delete_directories"
    /\ pc = "done"
    /\ cleaner.num_threads = 2
    /\ result.kind = "Ok"
    /\ result.value.directories_deleted = 2
    /\ result.value.bytes_freed = 5

\* C25: the Stats are built from the counters only after every deletion
\* task has finished and made both of its updates; once the Stats exist no
\* task is running and the counters and the error list still are what the
\* snapshot read
C25_JoinBeforeSnapshot ==
    (op \in {"delete_directories", "cleanup_node_modules"} /\ tasks # <<>>
        /\ pc \in {"done", "exited"}) =>
        /\ \A i \in 1..Len(tasks) : tasks[i].state = "done"
        /\ result = Ok(CleanupStats(Len(targets), counters.deleted_count,
                                    counters.failed_count, counters.bytes_freed))
        /\ counters.deleted_count + counters.failed_count = Len(tasks)
        /\ progress.errors_printed =
              IF cleaner.show_progress THEN Len(counters.errors) ELSE 0

\* the driver has exited after two workers deleted two targets, one of
\* which failed, and printed the one error
C25_Witness ==
    /\ op = "cleanup_node_modules"
    /\ pc = "exited"
    /\ cleaner.num_threads = 2
    /\ Len(tasks) = 2
    /\ \A i \in 1..2 : tasks[i].state = "done"
    /\ counters.failed_count = 1
    /\ progress.errors_printed = 1

\* C26: when delete_directories has run a list the validator accepted, and
\* nothing but its own tasks touched the tree, no target equals or lies
\* above another target, and every task found its target as it was when
\* the call started
C26_ExclusiveOwnership ==
    (op = "delete_directories" /\ pc = "done" /\ result.kind = "Ok"
        /\ tasks # <<>> /\ RemovedBy({"env"}) = {}) =>
        /\ \A i, j \in 1..Len(targets) :
              i # j => ~IsPrefix(targets[i], targets[j])
        /\ \A i \in 1..Len(tasks) : tasks[i].seen = Kind(fs0, targets[i])

\* the number of entries of a sequence that equal x
Occurrences(seq, x) == Cardinality({ k \in 1..Len(seq) : seq[k] = x })

\* C27: when delete_directories has finished, the error list holds one
\* line "<path>: <message>" per failed deletion and none for a successful
\* one, so its length is directories_failed, whatever the interleaving;
\* while the tasks run, a line is in the list only after its failure has
\* been counted
C27_ErrorListMatchesFailures ==
    (op \in {"delete_directories", "cleanup_node_modules"} /\ tasks # <<>>) =>
        /\ Len(counters.errors) <= counters.failed_count
        /\ (pc \in {"done", "exited"} /\ result.kind = "Ok") =>
              /\ Len(counters.errors) = result.value.directories_failed
              /\ \A i \in 1..Len(tasks) :
                    LET line == PathStr(targets[i]) \o <<":", " ", "IO error">>
                    IN  Occurrences(counters.errors, line) =
                            Cardinality({ j \in 1..Len(tasks) :
                                            targets[j] = targets[i] /\ ~tasks[j].ok })
              /\ \A k \in 1..Len(counters.errors) :
                    \E i \in 1..Len(tasks) :
                        /\ ~tasks[i].ok
                        /\ counters.errors[k] =
                              PathStr(targets[i]) \o <<":", " ", "IO error">>

\* two workers failed on two different targets and the second target's
\* line was pushed first
C27_Witness ==
    /\ op = "delete_directories"
    /\ pc = "done"
    /\ cleaner.num_threads = 2
    /\ Len(targets) = 2 /\ targets[1] # targets[2]
    /\ result.kind = "Ok" /\ result.value.directories_failed = 2
    /\ Len(counters.errors) = 2
    /\ counters.errors[1] = PathStr(targets[2]) \o <<":", " ", "IO error">>

\* the pool size Cleaner::new is asked for
RequestedThreads == IF config.threads = None THEN NumCpus ELSE config.threads[1]

\* delete_directories has handed the targets to the pool of its Cleaner
PoolAtWork ==
    /\ op \in {"delete_directories", "cleanup_node_modules"}
    /\ pc \in {"deleting", "done", "exited"}
    /\ tasks # <<>>

C28_WitnessZero ==
    /\ op = "delete_directories"
    /\ pc = "deleting"
    /\ config.threads = Some(0)
    /\ Cardinality(Running) = 2

\* the paths from the root of the scan down to the parent of e, the root
\* included
WalkedThrough(e) ==
    { SubSeq(e, 1, k) : k \in Len(root_path)..(Len(e) - 1) }

\* a scan has returned its candidates
LinkScanReturned ==
    /\ op = "find_node_modules_dirs"
    /\ pc \in {"done", "again"}
    /\ result.kind = "Ok"

\* C29 as stated: the walk never reads the directory behind a symbolic
\* link, a link named node_modules is never returned, and no returned
\* candidate is reached through a link
C29_LinksNotFollowed ==
    LinkScanReturned =>
        /\ \A e \in visited : \A q \in WalkedThrough(e) : file_type(fs, q) # "link"
        /\ \A t \in Range(targets) :
              /\ file_type(fs, t) = "dir"
              /\ \A q \in WalkedThrough(t) : file_type(fs, q) # "link"

\* C29, amended: the same for every link below the root of the scan; the
\* root itself is followed when it is a link to a directory
C29_LinksBelowRootNotFollowed ==
    LinkScanReturned =>
        /\ \A e \in visited : \A q \in WalkedThrough(e) \ {root_path} :
              file_type(fs, q) # "link"
        /\ \A t \in Range(targets) :
              /\ file_type(fs, t) = "dir"
              /\ \A q \in WalkedThrough(t) \ {root_path} : file_type(fs, q) # "link"
        /\ (file_type(fs, root_path) = "link"
               /\ Kind(fs, LinkTarget(root_path)) = "dir") =>
              \A n \in Names :
                  Kind(fs, Append(LinkTarget(root_path), n)) # "none"
                      => Append(root_path, n) \in visited

\* the root of the scan is a link to a project directory and the scan
\* returned the node_modules directory of that project
C29_Witness ==
    /\ LinkScanReturned
    /\ root_path = <<NameAB>>
    /\ Kind(fs, root_path) = "link"
    /\ targets = << <<NameAB, NodeModules>> >>
    /\ <<NameAB, NodeModules, NameA>> \in visited

\* links below the root: /a-b is a link to /a, where a node_modules
\* directory is found, and the walk from / yields the link and nothing
\* behind it
C29_WitnessBelowRoot ==
    /\ LinkScanReturned
    /\ root_path = <<>>
    /\ Kind(fs, <<NameAB>>) = "link"
    /\ <<NameAB>> \in visited
    /\ <<NameAB, NodeModules>> \notin visited
    /\ targets = << <<NameA, NodeModules>> >>

\* a link named node_modules is yielded by the walk and is not returned
C29_WitnessLinkNamedNodeModules ==
    /\ LinkScanReturned
    /\ root_path = <<>>
    /\ Kind(fs, <<NameAB, NodeModules>>) = "link"
    /\ <<NameAB, NodeModules>> \in visited
    /\ targets = <<>>

\* C30: under fair scheduling, for every list and every pool of at least
\* one worker, delete_directories eventually returns; when the validator
\* accepted the list it returns Stats and every deletion task has
\* completed, the failed ones included
C30_Termination ==
    <>(/\ pc = "done"
       /\ result.kind \in {"Ok", "Err"}
       /\ Offenders(targets) = {} =>
             /\ result.kind = "Ok"
             /\ Len(tasks) = Len(targets)
             /\ \A i \in 1..Len(tasks) : tasks[i].state = "done")

\* one worker, two targets: the first deletion failed, the second one ran
\* after it and succeeded, and the call returned
C30_Witness ==
    /\ op = "delete_directories"
    /\ pc = "done"
    /\ cleaner.num_threads = 1
    /\ Len(tasks) = 2
    /\ ~tasks[1].ok /\ tasks[1].state = "done"
    /\ tasks[2].ok /\ tasks[2].state = "done"
    /\ result = Ok(CleanupStats(2, 1, 1, 5))

====
